---- MODULE Spec2Model ----
(***************************************************************************)
(* File storage service: blobs in a MinIO bucket, metadata in one SQLite   *)
(* table.  The repository holds two applications over the same two stores: *)
(* the monolithic app.py and the layered main.py (with services/).  A      *)
(* behaviour runs one of them (impl), chosen when the server is started.   *)
(*                                                                         *)
(* Each HTTP request is a handler instance (a member of Procs) that walks  *)
(* through its store calls one at a time; handlers of different requests   *)
(* interleave between store calls (several server workers share the bucket *)
(* and the database file).  A store call either takes effect and returns,  *)
(* or raises without effect.                                               *)
(***************************************************************************)
EXTENDS Integers, Sequences, FiniteSets, TLC

\* ------------------------------------------------------------------ bounds
MaxRequests == 3      \* requests started in one behaviour

\* ------------------------------------------------------------ basic values
Procs == {"h1", "h2"}

None == "None"

Impls == {"app", "main"}

\* Upload contents: b"" and b"hi".
Contents == {<< >>, <<104, 105>>}

\* File names are sequences of tokens; "." is a token of its own.
FileNames == {<<"a", ".", "t">>, <<"b">>}

\* The multipart file parts a client may send: the client derives the part's
\* content type from the name, and sends none for a name without extension.
ContentTypeOf(name) == IF name = <<"b">> THEN None ELSE "text/plain"

\* "a.t" comes with either content, "b" with b"hi".
UploadFiles ==
    {f \in {[filename |-> n, content_type |-> ContentTypeOf(n), content |-> c] :
                n \in FileNames, c \in Contents} :
        f.filename = <<"b">> => f.content # << >>}

\* ------------------------------------------------------------------- state
VARIABLES
    impl,      \* which application serves the requests
    rows,      \* the rows of table files
    seq,       \* sqlite_sequence of table files (AUTOINCREMENT)
    bucket,    \* the bucket: object key -> stored object
    clock,     \* CURRENT_TIMESTAMP, in seconds
    uuids,     \* number of uuid4 values drawn so far
    proc,      \* the handler instances
    nreq       \* requests started so far

vars == <<impl, rows, seq, bucket, clock, uuids, proc, nreq>>

\* ------------------------------------------------------ object key, uuid4
Max(S) == CHOOSE x \in S : \A y \in S : y <= x

\* uuid4(): the n-th value drawn differs from every value drawn before it.
uuid4(n) == n + 1

\* file.filename.split(".")[-1]: what follows the last "."; the whole name
\* when it holds no ".".
SplitLast(name) ==
    LET dots == {i \in 1..Len(name) : name[i] = "."}
    IN  IF dots = {} THEN name ELSE SubSeq(name, Max(dots) + 1, Len(name))

\* ObjectKey without the uuid: the key is the file name (or extension) alone.
ObjectKeyNoUuid(i, u, filename) ==
    IF i = "app"
    THEN [uuid |-> 0, tail |-> <<"_">> \o filename]
    ELSE [uuid |-> 0, tail |-> <<"_", "file", ".">> \o SplitLast(filename)]

\* app.py: f"{uuid.uuid4()}_{file.filename}"
\* minio_service.py: f"{uuid.uuid4()}_file.{file_extension}"
ObjectKey(i, u, filename) ==
    IF i = "app"
    THEN [uuid |-> u, tail |-> <<"_">> \o filename]
    ELSE [uuid |-> u, tail |-> <<"_", "file", ".">> \o SplitLast(filename)]

\* file.content_type or "application/octet-stream"
EffectiveContentType(ct) == IF ct = None THEN "application/octet-stream" ELSE ct

\* ------------------------------------------------------- the object store
\* put_object(bucket, key, BytesIO(data), length, content_type)
put_object(b, key, data, length, ct) ==
    [k \in DOMAIN b \cup {key} |->
        IF k = key
        THEN [data |-> SubSeq(data, 1, length), content_type |-> ct]
        ELSE b[k]]

\* remove_object returning without having removed anything.
remove_object_kept(b, key) == b

\* remove_object(bucket, key): MinIO answers a delete of a missing key as it
\* answers a delete of a present one; nothing is raised.
remove_object(b, key) == [k \in DOMAIN b \ {key} |-> b[k]]

StreamChunkApp == 32768

StreamChunkMain == 65536

\* response.stream(amt): the object's bytes in chunks of at most amt bytes.
RECURSIVE Stream(_, _)
Stream(data, amt) ==
    IF Len(data) = 0 THEN <<>>
    ELSE IF Len(data) <= amt THEN <<data>>
    ELSE <<SubSeq(data, 1, amt)>> \o Stream(SubSeq(data, amt + 1, Len(data)), amt)

\* The body a client receives from a StreamingResponse: the chunks in order.
RECURSIVE Body(_)
Body(chunks) == IF chunks = <<>> THEN <<>> ELSE Head(chunks) \o Body(Tail(chunks))

\* ----------------------------------------------------- the metadata store
Ids(rs) == {r.id : r \in rs}

Keys(rs) == {r.minio_object_key : r \in rs}

\* NextId of a plain INTEGER PRIMARY KEY: one more than the largest id in the
\* table now.
NextIdOfRowid(rs, s) == Max({0} \cup Ids(rs)) + 1

\* INTEGER PRIMARY KEY AUTOINCREMENT: one more than the largest id the table
\* has ever held.
NextId(rs, s) == Max({s} \cup Ids(rs)) + 1

\* NewRow storing the length of the name where the byte length belongs.
NewRowSizeOfName(rs, s, now, file_name, key, ct, size) ==
    [id |-> NextId(rs, s), file_name |-> file_name, minio_object_key |-> key,
     content_type |-> ct, size |-> Len(file_name), created_at |-> now]

\* INSERT INTO files (file_name, minio_object_key, content_type, size);
\* created_at DEFAULT CURRENT_TIMESTAMP.
NewRow(rs, s, now, file_name, key, ct, size) ==
    [id |-> NextId(rs, s), file_name |-> file_name, minio_object_key |-> key,
     content_type |-> ct, size |-> size, created_at |-> now]

\* SELECT ... FROM files ORDER BY created_at DESC: every order of the rows
\* that is descending in created_at (rows of one second come in any order).
list_files(rs) ==
    {l \in [1..Cardinality(rs) -> rs] :
        /\ \A i, j \in 1..Cardinality(rs) : i # j => l[i] # l[j]
        /\ \A i, j \in 1..Cardinality(rs) :
              i < j => l[i].created_at >= l[j].created_at}

\* DELETE FROM files WHERE id = ?
delete_rows(rs, file_id) == {r \in rs : r.id # file_id}

\* pydantic: a model is built only when every field without a default is given.
FileMetadata(kw) ==
    IF {"id", "file_name", "minio_object_key", "created_at"} \subseteq DOMAIN kw
    THEN [tag |-> "value", val |-> kw]
    ELSE [tag |-> "raise", err |-> "ValidationError"]

\* database_service.get_file_metadata: None for no row, otherwise a
\* FileMetadata built from the three selected columns and the id.
get_file_metadata(rs, file_id) ==
    LET found == {r \in rs : r.id = file_id}
    IN  IF found = {} THEN [tag |-> "none"]
        ELSE LET row == CHOOSE r \in found : TRUE
             IN  FileMetadata([id |-> file_id,
                               file_name |-> row.file_name,
                               minio_object_key |-> row.minio_object_key,
                               content_type |-> row.content_type])

\* pydantic: FileUploadResponse.id must be an int.
FileUploadResponse(id, file_name, key) ==
    IF id.type = "int"
    THEN [tag |-> "value",
          val |-> [id |-> id.v, file_name |-> file_name, minio_object_key |-> key]]
    ELSE [tag |-> "raise", err |-> "ValidationError"]

\* ------------------------------------------------------------ the handlers
\* A handler instance: the request (op, file or id), the position in the
\* handler (pc), its local object_key, and the response once pc = "done".
\*   obs      what the handler's metadata lookup found
\*   failed   a store call of this request raised a store failure
\*   s3calls  object-store calls issued by this request
\*   conns    database connections this request opened and has not closed
\*   began    (uploads) the highest id assigned when the request arrived
Idle ==
    [op |-> "none", pc |-> "idle", file |-> None, id |-> 0, object_key |-> None,
     status |-> 0, result |-> None, err |-> None, obs |-> None,
     failed |-> FALSE, s3calls |-> 0, conns |-> 0, began |-> 0]

\* Handler p may take the next request (the first request goes to h1: the
\* handlers are alike).
Free(p) ==
    /\ proc[p].pc \in {"idle", "done"}
    /\ nreq < MaxRequests
    /\ nreq = 0 => p = "h1"

\* The handler returns: HTTP 200 with a response body.
Return(h, result) == [h EXCEPT !.pc = "done", !.status = 200, !.result = result]

\* The handler raises HTTPException(status) after exception class err.
Raise(h, status, err) == [h EXCEPT !.pc = "done", !.status = status, !.err = err]

\* A store call raised a store failure (transport error, locked database).
StoreFailure(h, err) == [Raise(h, 500, err) EXCEPT !.failed = TRUE]

Init ==
    /\ impl \in Impls
    /\ rows = {}
    /\ seq = 0
    /\ bucket = << >>
    /\ clock = 0
    /\ uuids = 0
    /\ proc = [p \in Procs |-> Idle]
    /\ nreq = 0

\* CURRENT_TIMESTAMP moves on to a second in which no row was inserted yet
\* (only an INSERT reads it, and only the order of the seconds of the rows
\* is ever read: the clock is seen to move when an INSERT is about to run).
Tick ==
    /\ \E r \in rows : r.created_at = clock
    /\ \E p \in Procs : proc[p].pc = "insert"
    /\ clock' = clock + 1
    /\ UNCHANGED <<impl, rows, seq, bucket, uuids, proc, nreq>>

\* POST /files/ arrives: the object key is generated and the part is read.
UploadStart(p, f) ==
    /\ Free(p)
    /\ proc' = [proc EXCEPT ![p] =
          [Idle EXCEPT !.op = "upload", !.pc = "put", !.file = f, !.began = seq,
                       !.object_key = ObjectKey(impl, uuid4(uuids), f.filename)]]
    /\ uuids' = uuids + 1
    /\ nreq' = nreq + 1
    /\ UNCHANGED <<impl, rows, seq, bucket, clock>>

\* UploadPut with the failure of put_object swallowed: the handler goes on to
\* the insert although nothing was written.
UploadPutSwallow(p) ==
    LET h == proc[p]
        called == [h EXCEPT !.s3calls = h.s3calls + 1]
    IN  /\ h.op = "upload"
        /\ h.pc = "put"
        /\ \/ /\ bucket' = put_object(bucket, h.object_key, h.file.content,
                                      Len(h.file.content),
                                      EffectiveContentType(h.file.content_type))
              /\ proc' = [proc EXCEPT ![p] = [called EXCEPT !.pc = "insert"]]
           \/ /\ proc' = [proc EXCEPT ![p] =
                    [called EXCEPT !.pc = "insert", !.failed = TRUE]]
              /\ UNCHANGED bucket
        /\ UNCHANGED <<impl, rows, seq, clock, uuids, nreq>>

\* minio_client.put_object(...): the blob is written, or the call raises and
\* the handler answers 500.
UploadPut(p) ==
    LET h == proc[p]
        called == [h EXCEPT !.s3calls = h.s3calls + 1]
    IN  /\ h.op = "upload"
        /\ h.pc = "put"
        /\ \/ /\ bucket' = put_object(bucket, h.object_key, h.file.content,
                                      Len(h.file.content),
                                      EffectiveContentType(h.file.content_type))
              /\ proc' = [proc EXCEPT ![p] = [called EXCEPT !.pc = "insert"]]
           \/ /\ proc' = [proc EXCEPT ![p] = StoreFailure(called, "MaxRetryError")]
              /\ UNCHANGED bucket
        /\ UNCHANGED <<impl, rows, seq, clock, uuids, nreq>>

\* What upload_file does once the row is inserted and committed.
\*   app.py: file_id = cursor.lastrowid, conn.close(), the response.
\*   main.py: add_file_metadata reads the row back with get_file_metadata and
\*   returns that; upload_file passes it on as the response's id.
AfterInsertIn(i, h, rs, row) ==
    IF i = "app"
    THEN Return(h, [id |-> row.id, file_name |-> h.file.filename,
                    minio_object_key |-> h.object_key])
    ELSE LET file == get_file_metadata(rs, row.id)
             resp == FileUploadResponse(
                         IF file.tag = "value"
                         THEN [type |-> "FileMetadata", v |-> file.val]
                         ELSE [type |-> "NoneType"],
                         h.file.filename, h.object_key)
         IN  IF file.tag = "raise" THEN Raise(h, 500, file.err)
             ELSE IF resp.tag = "raise" THEN Raise(h, 500, resp.err)
             ELSE Return(h, resp.val)

AfterInsert(h, rs, row) == AfterInsertIn(impl, h, rs, row)

\* The content type stored in the row: app.py stores file.content_type,
\* main.py the effective content type upload_file_to_minio returned.
RowContentTypeIn(i, f) ==
    IF i = "app" THEN f.content_type ELSE EffectiveContentType(f.content_type)

RowContentType(f) == RowContentTypeIn(impl, f)

\* UploadInsert with a compensating removal: when the INSERT raises, the blob
\* just written is removed from the bucket again.
UploadInsertCompensating(p) ==
    LET h == proc[p]
        row == NewRow(rows, seq, clock, h.file.filename, h.object_key,
                      RowContentType(h.file), Len(h.file.content))
    IN  /\ h.op = "upload"
        /\ h.pc = "insert"
        /\ \/ /\ h.object_key \notin Keys(rows)
              /\ rows' = rows \cup {row}
              /\ seq' = row.id
              /\ proc' = [proc EXCEPT ![p] = AfterInsert(h, rows', row)]
              /\ UNCHANGED bucket
           \/ /\ proc' = [proc EXCEPT ![p] =
                    [StoreFailure(h, "OperationalError")
                        EXCEPT !.conns = 1, !.s3calls = h.s3calls + 1]]
              /\ bucket' = remove_object(bucket, h.object_key)
              /\ UNCHANGED <<rows, seq>>
        /\ UNCHANGED <<impl, clock, uuids, nreq>>

\* INSERT INTO files, commit: the row is stored, or the statement raises
\* (UNIQUE on minio_object_key, or a store failure) and the handler answers
\* 500 without closing the connection it opened.
UploadInsert(p) ==
    LET h == proc[p]
        row == NewRow(rows, seq, clock, h.file.filename, h.object_key,
                      RowContentType(h.file), Len(h.file.content))
    IN  /\ h.op = "upload"
        /\ h.pc = "insert"
        /\ \/ /\ h.object_key \notin Keys(rows)
              /\ rows' = rows \cup {row}
              /\ seq' = row.id
              /\ proc' = [proc EXCEPT ![p] = AfterInsert(h, rows', row)]
           \/ /\ h.object_key \in Keys(rows)
              /\ proc' = [proc EXCEPT ![p] =
                    [Raise(h, 500, "IntegrityError") EXCEPT !.conns = 1]]
              /\ UNCHANGED <<rows, seq>>
           \/ /\ proc' = [proc EXCEPT ![p] =
                    [StoreFailure(h, "OperationalError") EXCEPT !.conns = 1]]
              /\ UNCHANGED <<rows, seq>>
        /\ UNCHANGED <<impl, bucket, clock, uuids, nreq>>

\* ListFiles that looks every row's blob up in the bucket and leaves out
\* the rows whose blob is missing.
ListFilesVerified(p) ==
    LET h == [Idle EXCEPT !.op = "list"]
        found == {r \in rows : r.minio_object_key \in DOMAIN bucket}
    IN  /\ Free(p)
        /\ \/ /\ \E l \in list_files(found) :
                    proc' = [proc EXCEPT ![p] =
                        Return([h EXCEPT !.s3calls = Cardinality(rows)], l)]
           \/ /\ proc' = [proc EXCEPT ![p] =
                    [StoreFailure(h, "OperationalError") EXCEPT !.conns = 1]]
        /\ nreq' = nreq + 1
        /\ UNCHANGED <<impl, rows, seq, bucket, clock, uuids>>

\* GET /files/: one SELECT, no object-store call.
ListFiles(p) ==
    /\ Free(p)
    /\ \/ /\ \E l \in list_files(rows) :
                proc' = [proc EXCEPT ![p] = Return([Idle EXCEPT !.op = "list"], l)]
       \/ /\ proc' = [proc EXCEPT ![p] =
                [StoreFailure([Idle EXCEPT !.op = "list"], "OperationalError")
                    EXCEPT !.conns = 1]]
    /\ nreq' = nreq + 1
    /\ UNCHANGED <<impl, rows, seq, bucket, clock, uuids>>

\* What the lookup of file_id finds: no row, a row with its blob, or a row
\* whose blob is not in the bucket.
Observe(file_id) ==
    IF file_id \notin Ids(rows) THEN "norow"
    ELSE IF (CHOOSE r \in rows : r.id = file_id).minio_object_key \in DOMAIN bucket
    THEN "row_blob" ELSE "row_noblob"

\* The first step of download_file and of delete_file: the row of file_id.
\*   app.py: SELECT ... WHERE id = ?; no row, HTTPException(404), which the
\*   handler's "except HTTPException: raise" lets through.  download_file
\*   closes the connection after the SELECT; delete_file keeps it open, and
\*   closes it before raising 404.
\*   main.py: get_file_metadata; whatever it raises, and the HTTPException(404)
\*   for None, is caught by "except Exception" and answered as 500;
\*   delete_file then subscripts the FileMetadata, a TypeError.
LookupIn(i, h, next) ==
    IF i = "app"
    THEN IF h.id \notin Ids(rows)
         THEN Raise(h, 404, "HTTPException")
         ELSE [h EXCEPT !.pc = next,
                        !.conns = IF h.op = "delete" THEN 1 ELSE 0,
                        !.object_key =
                            (CHOOSE r \in rows : r.id = h.id).minio_object_key]
    ELSE LET file == get_file_metadata(rows, h.id)
         IN  IF file.tag = "raise" THEN Raise(h, 500, file.err)
             ELSE IF file.tag = "none" THEN Raise(h, 500, "HTTPException")
             ELSE IF h.op = "delete" THEN Raise(h, 500, "TypeError")
             ELSE [h EXCEPT !.pc = next, !.object_key = file.val.minio_object_key]

Lookup(h, next) == LookupIn(impl, h, next)

\* GET /files/{file_id} arrives and looks the row up.
DownloadGet(p, file_id) ==
    LET h == [Idle EXCEPT !.op = "download", !.id = file_id, !.obs = Observe(file_id)]
    IN  /\ Free(p)
        /\ \/ /\ proc' = [proc EXCEPT ![p] = Lookup(h, "fetch")]
           \/ /\ proc' = [proc EXCEPT ![p] =
                    [StoreFailure(h, "OperationalError") EXCEPT !.conns = 1]]
        /\ nreq' = nreq + 1
        /\ UNCHANGED <<impl, rows, seq, bucket, clock, uuids>>

\* The response of a download: the blob streamed in chunks, with the row's
\* file name.
StreamedIn(i, h, data) ==
    Return(h, [body |-> Body(Stream(data,
                        IF i = "app" THEN StreamChunkApp ELSE StreamChunkMain))])

Streamed(h, data) == StreamedIn(impl, h, data)

\* minio_client.get_object(bucket, object_key): the blob, S3Error (NoSuchKey)
\* when the bucket holds no such key, or a store failure; both answered 500.
DownloadFetch(p) ==
    LET h == proc[p]
        called == [h EXCEPT !.s3calls = h.s3calls + 1]
    IN  /\ h.op = "download"
        /\ h.pc = "fetch"
        /\ \/ /\ h.object_key \in DOMAIN bucket
              /\ proc' = [proc EXCEPT ![p] = Streamed(called, bucket[h.object_key].data)]
           \/ /\ h.object_key \notin DOMAIN bucket
              /\ proc' = [proc EXCEPT ![p] = Raise(called, 500, "S3Error")]
           \/ /\ proc' = [proc EXCEPT ![p] = StoreFailure(called, "MaxRetryError")]
        /\ UNCHANGED <<impl, rows, seq, bucket, clock, uuids, nreq>>

\* DELETE /files/{file_id} arrives and looks the row up.
DeleteGet(p, file_id) ==
    LET h == [Idle EXCEPT !.op = "delete", !.id = file_id, !.obs = Observe(file_id)]
    IN  /\ Free(p)
        /\ \/ /\ proc' = [proc EXCEPT ![p] = Lookup(h, "remove")]
           \/ /\ proc' = [proc EXCEPT ![p] =
                    [StoreFailure(h, "OperationalError") EXCEPT !.conns = 1]]
        /\ nreq' = nreq + 1
        /\ UNCHANGED <<impl, rows, seq, bucket, clock, uuids>>

\* DeleteRemove going on to the DELETE statement although remove_object
\* raised.
DeleteRemoveSwallow(p) ==
    LET h == proc[p]
        called == [h EXCEPT !.s3calls = h.s3calls + 1]
    IN  /\ h.op = "delete"
        /\ h.pc = "remove"
        /\ \/ /\ bucket' = remove_object(bucket, h.object_key)
              /\ proc' = [proc EXCEPT ![p] = [called EXCEPT !.pc = "dbdelete"]]
           \/ /\ proc' = [proc EXCEPT ![p] =
                    [called EXCEPT !.pc = "dbdelete", !.failed = TRUE]]
              /\ UNCHANGED bucket
        /\ UNCHANGED <<impl, rows, seq, clock, uuids, nreq>>

\* minio_client.remove_object(bucket, object_key): the blob is gone, or the
\* call raises and the handler answers 500, the row untouched.
DeleteRemove(p) ==
    LET h == proc[p]
        called == [h EXCEPT !.s3calls = h.s3calls + 1]
    IN  /\ h.op = "delete"
        /\ h.pc = "remove"
        /\ \/ /\ bucket' = remove_object(bucket, h.object_key)
              /\ proc' = [proc EXCEPT ![p] = [called EXCEPT !.pc = "dbdelete"]]
           \/ /\ proc' = [proc EXCEPT ![p] = StoreFailure(called, "MaxRetryError")]
              /\ UNCHANGED bucket
        /\ UNCHANGED <<impl, rows, seq, clock, uuids, nreq>>

\* What delete_file does once the DELETE statement is committed.
\*   app.py: conn.close() and the success message, whatever the row count.
\*   main.py: delete_file_metadata returns rowcount > 0; for False the
\*   handler raises HTTPException(404), which "except Exception" answers 500.
AfterDeleteIn(i, h, deleted) ==
    IF i = "app" \/ deleted
    THEN Return([h EXCEPT !.conns = 0], [message |-> h.id])
    ELSE Raise(h, 500, "HTTPException")

AfterDelete(h, deleted) == AfterDeleteIn(impl, h, deleted)

\* DeleteRow not waiting for remove_object: the DELETE statement also runs
\* for a delete that has read its row and not yet removed the blob, and the
\* request is answered.
DeleteRowSkippingBlob(p) ==
    LET h == proc[p]
    IN  /\ h.op = "delete"
        /\ h.pc \in {"remove", "dbdelete"}
        /\ \/ /\ rows' = delete_rows(rows, h.id)
              /\ proc' = [proc EXCEPT ![p] = AfterDelete(h, h.id \in Ids(rows))]
           \/ /\ proc' = [proc EXCEPT ![p] = StoreFailure(h, "OperationalError")]
              /\ UNCHANGED rows
        /\ UNCHANGED <<impl, seq, bucket, clock, uuids, nreq>>

\* DELETE FROM files WHERE id = ?, commit: the row is gone, or the statement
\* raises and the handler answers 500, the row still there.
DeleteRow(p) ==
    LET h == proc[p]
    IN  /\ h.op = "delete"
        /\ h.pc = "dbdelete"
        /\ \/ /\ rows' = delete_rows(rows, h.id)
              /\ proc' = [proc EXCEPT ![p] = AfterDelete(h, h.id \in Ids(rows))]
           \/ /\ proc' = [proc EXCEPT ![p] = StoreFailure(h, "OperationalError")]
              /\ UNCHANGED rows
        /\ UNCHANGED <<impl, seq, bucket, clock, uuids, nreq>>

\* Someone other than the service removes a blob from the bucket.
OutOfBandRemove(key) ==
    /\ key \in DOMAIN bucket
    /\ bucket' = remove_object(bucket, key)
    /\ UNCHANGED <<impl, rows, seq, clock, uuids, proc, nreq>>

\* The ids a request may name: those ever assigned, and one never assigned.
RequestIds == 1..(seq + 1)

Next ==
    \/ Tick
    \/ \E p \in Procs, f \in UploadFiles : UploadStart(p, f)
    \/ \E p \in Procs : UploadPut(p)
    \/ \E p \in Procs : UploadInsert(p)
    \/ \E p \in Procs : ListFiles(p)
    \/ \E p \in Procs, i \in RequestIds : DownloadGet(p, i)
    \/ \E p \in Procs : DownloadFetch(p)
    \/ \E p \in Procs, i \in RequestIds : DeleteGet(p, i)
    \/ \E p \in Procs : DeleteRemove(p)
    \/ \E p \in Procs : DeleteRow(p)

\* The service alone: nothing but its handlers touches the two stores.
Spec == Init /\ [][Next]_vars

NextOOB ==
    \/ Next
    \/ \E key \in DOMAIN bucket : OutOfBandRemove(key)

\* The service, and blobs removed from the bucket behind its back.
SpecOOB == Init /\ [][NextOOB]_vars

\* ------------------------------------------------------------------ claims
Done(p) == proc[p].pc = "done"

\* No upload and no delete is in flight.
Quiescent ==
    \A p \in Procs :
        proc[p].op \in {"upload", "delete"} => proc[p].pc \in {"idle", "done"}

\* C1: in every quiescent state, with no out-of-band change, the object key
\* of every row of the metadata table names a blob that is in the bucket.
C1_RowsReferenceBlobs ==
    Quiescent => \A r \in rows : r.minio_object_key \in DOMAIN bucket

\* An upload whose put_object raised, beside an upload that stored its row.
C2_Witness ==
    \E p, q \in Procs :
        /\ proc[p].op = "upload" /\ Done(p)
        /\ proc[p].err = "MaxRetryError"
        /\ proc[q].op = "upload" /\ Done(q)
        /\ proc[q].object_key \in Keys(rows)

\* C2: a metadata row is inserted only by an upload whose put_object has
\* returned (the blob of the row's key is in the bucket when the row is
\* inserted), and an upload whose put_object failed has no row.
C2_PutBeforeInsert ==
    /\ [](\A p \in Procs :
            (proc[p].op = "upload" /\ Done(p) /\ proc[p].err = "MaxRetryError")
                => proc[p].object_key \notin Keys(rows))
    /\ [][\A r \in rows' \ rows :
            /\ r.minio_object_key \in DOMAIN bucket
            /\ \E p \in Procs :
                  /\ proc[p].op = "upload"
                  /\ proc[p].pc = "insert"
                  /\ proc[p].object_key = r.minio_object_key
                  /\ proc[p].s3calls = 1
                  /\ ~proc[p].failed]_vars

\* Handler p's upload reports success in this step.
UploadSucceeds(p) ==
    /\ proc[p].op = "upload"
    /\ proc[p].pc = "insert"
    /\ proc'[p].pc = "done"
    /\ proc'[p].status = 200

Records(l) == {l[i] : i \in DOMAIN l}

\* An upload has succeeded into a table that held a record before.
C3_Witness ==
    \E p \in Procs :
        /\ proc[p].op = "upload" /\ Done(p)
        /\ proc[p].status = 200
        /\ proc[p].result.minio_object_key \in Keys(rows)
        /\ Cardinality(rows) >= 2

\* C3: when an upload succeeds, every listing right after it holds exactly
\* one record more than any listing right before it: the old records, and one
\* new record with the uploaded file name, the byte length of the uploaded
\* content as size, and an object key no earlier record has.
C3_ListGrowsByOne ==
    [][\A p \in Procs :
          UploadSucceeds(p) =>
            \A before \in list_files(rows), after \in list_files(rows') :
              /\ Len(after) = Len(before) + 1
              /\ Records(before) \subseteq Records(after)
              /\ \A r \in Records(after) \ Records(before) :
                    /\ r.file_name = proc[p].file.filename
                    /\ r.size = Len(proc[p].file.content)
                    /\ r.minio_object_key = proc'[p].result.minio_object_key
                    /\ r.minio_object_key \notin
                          {b.minio_object_key : b \in Records(before)}]_vars

\* C4: an upload of B on which no store call fails returns an id, and a
\* download of that id that finds the record and its blob (no store failure,
\* no delete of the id meanwhile) answers 200 with exactly B as its body.
C4_RoundTrip ==
    \A p \in Procs :
        (proc[p].op = "upload" /\ Done(p) /\ ~proc[p].failed) =>
            /\ proc[p].status = 200
            /\ \A q \in Procs :
                  (/\ proc[q].op = "download" /\ Done(q)
                   /\ proc[q].id = proc[p].result.id
                   /\ proc[q].obs = "row_blob"
                   /\ ~proc[q].failed
                   /\ proc[q].err # "S3Error")
                      => /\ proc[q].status = 200
                         /\ proc[q].result.body = proc[p].file.content

\* The round trip as far as app.py goes: a download of the id an upload
\* returned answers 200 with the uploaded bytes.
RoundTripUnderApp == impl = "app" => C4_RoundTrip

\* C5: an upload whose put_object and INSERT both succeeded answers 200 with
\* the id, file name and object key of the row it inserted; an upload
\* answers 500 only after a store call of it failed.
C5_UploadReportsSuccess ==
    \A p \in Procs :
        (proc[p].op = "upload" /\ Done(p)) =>
            /\ proc[p].status \in {200, 500}
            /\ (proc[p].status = 500) =>
                  (proc[p].failed \/ proc[p].err = "IntegrityError")
            /\ (proc[p].status = 200) =>
                  \A r \in rows :
                      r.minio_object_key = proc[p].object_key =>
                          /\ r.id = proc[p].result.id
                          /\ r.file_name = proc[p].result.file_name
                          /\ r.minio_object_key = proc[p].result.minio_object_key

UploadReportsSuccessUnderApp == impl = "app" => C5_UploadReportsSuccess

\* C6: a delete that finds its row, and on which no store call fails, answers
\* 200; a delete of an id the table once held and holds no more (an earlier
\* delete removed the row) answers 404, as does a download of it.
C6_SecondDeleteNotFound ==
    \A p \in Procs :
        (Done(p) /\ proc[p].op \in {"delete", "download"} /\ ~proc[p].failed) =>
            /\ (proc[p].obs = "norow" /\ proc[p].id <= seq) => (proc[p].status = 404)
            /\ (proc[p].op = "delete" /\ proc[p].obs # "norow") =>
                  (proc[p].status = 200)

SecondDeleteNotFoundUnderApp == impl = "app" => C6_SecondDeleteNotFound

\* C7: a delete that finds its row while the row's blob is no longer in the
\* bucket, and on which no store call fails, answers 200 and removes the row.
C7_DeleteWithoutBlobSucceeds ==
    \A p \in Procs :
        (/\ Done(p) /\ proc[p].op = "delete"
         /\ proc[p].obs = "row_noblob"
         /\ ~proc[p].failed)
            => /\ proc[p].status = 200
               /\ proc[p].id \notin Ids(rows)

DeleteWithoutBlobSucceedsUnderApp == impl = "app" => C7_DeleteWithoutBlobSucceeds

\* C8: a download of an id without a row answers 404 and issues no
\* object-store call; a download that finds the row but not its blob answers
\* 500 for the missing object (S3Error).
C8_DownloadNotFoundCases ==
    \A p \in Procs :
        (Done(p) /\ proc[p].op = "download" /\ ~proc[p].failed) =>
            /\ (proc[p].obs = "norow") =>
                  (proc[p].status = 404 /\ proc[p].s3calls = 0)
            /\ (proc[p].obs = "row_noblob") =>
                  (proc[p].status = 500 /\ proc[p].err = "S3Error")

DownloadNotFoundCasesUnderApp == impl = "app" => C8_DownloadNotFoundCases

\* C9: an upload that reports failure leaves no row behind: a row is inserted
\* only in the step in which its upload reports success.
C9_RowOnlyOnSuccess ==
    \A p \in Procs :
        (proc[p].op = "upload" /\ Done(p) /\ proc[p].status # 200) =>
            proc[p].object_key \notin Keys(rows)

RowOnlyOnSuccessUnderApp == impl = "app" => C9_RowOnlyOnSuccess

\* Two records of the same file name and different content are in the table.
C10_Witness ==
    \E r1, r2 \in rows :
        /\ r1.file_name = r2.file_name
        /\ r1.size # r2.size
        /\ r1.id # r2.id
        /\ r1.minio_object_key # r2.minio_object_key

\* C10: the rows have pairwise distinct ids and pairwise distinct object
\* keys; no upload fails on the UNIQUE constraint, and an INSERT that does not
\* fail adds a row with an id and an object key no row has.
C10_DistinctIdsAndKeys ==
    /\ [](/\ \A r1, r2 \in rows :
                r1 # r2 => /\ r1.id # r2.id
                           /\ r1.minio_object_key # r2.minio_object_key
          /\ \A p \in Procs : proc[p].err # "IntegrityError")
    /\ [][\A p \in Procs :
            (/\ proc[p].op = "upload"
             /\ proc[p].pc = "insert"
             /\ proc'[p].pc = "done"
             /\ ~proc'[p].failed)
                => \E r \in rows' \ rows :
                      /\ rows' = rows \cup {r}
                      /\ r.minio_object_key = proc[p].object_key
                      /\ r.id \notin Ids(rows)
                      /\ r.minio_object_key \notin Keys(rows)]_vars

\* C11: in every listing, a record whose upload began after the upload of
\* another record had completed (the other record's id was assigned before
\* the request arrived) comes before that other record, whatever the time
\* between the two uploads.
C11_ListNewestFirst ==
    \A p, q \in Procs :
        (/\ proc[p].op = "upload" /\ Done(p)
         /\ proc[q].op = "list" /\ proc[q].status = 200)
            => \A i, j \in DOMAIN proc[q].result :
                  (/\ proc[q].result[i].minio_object_key = proc[p].object_key
                   /\ proc[q].result[j].id <= proc[p].began)
                      => i < j

\* Newest first as far as the seconds of created_at tell the uploads apart.
ListNewestFirstAcrossSeconds ==
    \A p, q \in Procs :
        (/\ proc[p].op = "upload" /\ Done(p)
         /\ proc[q].op = "list" /\ proc[q].status = 200)
            => \A i, j \in DOMAIN proc[q].result :
                  (/\ proc[q].result[i].minio_object_key = proc[p].object_key
                   /\ proc[q].result[j].id <= proc[p].began
                   /\ proc[q].result[i].created_at # proc[q].result[j].created_at)
                      => i < j

\* The record with id 1 was deleted, and the one record of the table, whose
\* upload arrived when 1 was the highest id assigned, has id 2.
C12_Witness ==
    \E p, q \in Procs :
        /\ proc[p].op = "delete" /\ Done(p)
        /\ proc[p].id = 1 /\ proc[p].status = 200
        /\ proc[q].op = "upload" /\ Done(q)
        /\ proc[q].began = 1
        /\ \E r \in rows :
              /\ rows = {r}
              /\ r.minio_object_key = proc[q].object_key
              /\ r.id = 2

\* C12: an id once assigned is never assigned to a later record, deleted or
\* not: no row has an id above the highest id assigned so far (seq), and
\* every INSERT gives its row an id above it, which becomes the highest.
C12_IdsNeverReused ==
    /\ [](\A r \in rows : r.id <= seq)
    /\ [][/\ seq' >= seq
          /\ \A r \in rows' \ rows : r.id > seq /\ r.id <= seq']_vars

\* A delete answered 500 because its remove_object raised; the row it found
\* and the row's blob are there.
C13_Witness ==
    \E p \in Procs :
        /\ proc[p].op = "delete" /\ Done(p)
        /\ proc[p].err = "MaxRetryError" /\ proc[p].status = 500
        /\ proc[p].obs = "row_blob"
        /\ proc[p].id \in Ids(rows)
        /\ proc[p].object_key \in DOMAIN bucket

\* C13: a delete whose remove_object raises ends there with 500, the step
\* changing neither the table nor the bucket (the row and blob it found stay);
\* the DELETE statement is issued only by a delete whose remove_object has
\* returned.
C13_RemoveFailureAborts ==
    /\ [](\A p \in Procs :
            /\ (proc[p].op = "delete" /\ proc[p].pc = "dbdelete")
                  => (~proc[p].failed /\ proc[p].s3calls = 1)
            /\ (proc[p].op = "delete" /\ Done(p) /\ proc[p].err = "MaxRetryError")
                  => (proc[p].status = 500 /\ proc[p].failed))
    /\ [][\A p \in Procs :
            (proc[p].op = "delete" /\ proc[p].pc = "remove" /\ proc'[p].pc = "done")
                => /\ proc'[p].err = "MaxRetryError"
                   /\ proc'[p].status = 500
                   /\ rows' = rows
                   /\ bucket' = bucket]_vars

\* C14: when two deletes of one id have both read the row before either
\* removed it, and no store call of either fails, both answer 200 (the one
\* whose DELETE statement removes no row as well).
C14_ConcurrentDeletesSucceed ==
    \A p, q \in Procs :
        (/\ p # q
         /\ proc[p].op = "delete" /\ Done(p)
         /\ proc[q].op = "delete" /\ Done(q)
         /\ proc[p].id = proc[q].id
         /\ proc[p].obs # "norow" /\ proc[q].obs # "norow"
         /\ ~proc[p].failed /\ ~proc[q].failed)
            => (proc[p].status = 200 /\ proc[q].status = 200)

ConcurrentDeletesSucceedUnderApp == impl = "app" => C14_ConcurrentDeletesSucceed

\* Two deletes of one id that both read the row have both answered 200.
ConcurrentDeletesBothDone ==
    \E p, q \in Procs :
        /\ p # q
        /\ proc[p].op = "delete" /\ proc[p].status = 200
        /\ proc[q].op = "delete" /\ proc[q].status = 200
        /\ proc[p].id = proc[q].id

\* A delete that found its row and the row's blob has answered 200.
C15_Witness ==
    \E p \in Procs :
        /\ proc[p].op = "delete" /\ Done(p)
        /\ proc[p].status = 200
        /\ proc[p].obs = "row_blob"
        /\ proc[p].s3calls = 1
        /\ proc[p].id \in 1..seq
        /\ proc[p].id \notin Ids(rows)

\* C15: a row leaves the table only in the DELETE step of a delete of its
\* id, which that delete takes after its remove_object on the row's key has
\* returned; once a delete has answered 200, the table holds no row of its id
\* and the bucket no blob of the row's key.
C15_RowRemovedOnlyByDelete ==
    /\ [](\A p \in Procs :
            (proc[p].op = "delete" /\ Done(p) /\ proc[p].status = 200)
                => /\ proc[p].id \notin Ids(rows)
                   /\ proc[p].object_key \notin DOMAIN bucket)
    /\ [][\A r \in rows \ rows' :
            \E p \in Procs :
                /\ proc[p].op = "delete"
                /\ proc[p].pc = "dbdelete" /\ proc'[p].pc = "done"
                /\ proc[p].id = r.id
                /\ proc[p].object_key = r.minio_object_key
                /\ proc[p].s3calls = 1
                /\ r.minio_object_key \notin DOMAIN bucket]_vars

\* An upload answered 500 because its INSERT raised after its put_object had
\* returned.
C16_Witness ==
    \E p \in Procs :
        /\ proc[p].op = "upload" /\ Done(p)
        /\ proc[p].err = "OperationalError"
        /\ proc[p].status = 500
        /\ proc[p].object_key \in DOMAIN bucket

\* C16: an upload whose INSERT raises after its put_object returned answers
\* 500 in that step, which changes neither the bucket nor the table; the
\* request has made its one object-store call (no removal, no second put), and
\* its blob stays in the bucket with no row of its key.
C16_InsertFailureOrphansBlob ==
    /\ [](\A p \in Procs :
            (proc[p].op = "upload" /\ Done(p) /\ proc[p].err = "OperationalError")
                => /\ proc[p].status = 500
                   /\ proc[p].s3calls = 1
                   /\ proc[p].object_key \in DOMAIN bucket
                   /\ proc[p].object_key \notin Keys(rows))
    /\ [][\A p \in Procs :
            (/\ proc[p].op = "upload" /\ proc[p].pc = "insert"
             /\ proc'[p].failed)
                => /\ proc'[p].pc = "done"
                   /\ proc'[p].status = 500
                   /\ bucket' = bucket
                   /\ rows' = rows]_vars

\* C17 compares every interleaved run of two operations with their two
\* sequential runs, which no formula over one behaviour states.  What one
\* behaviour shows of it: a store step of a handler leaves every row of
\* another id and every blob of another key as it was (rows and blobs are
\* never rewritten; a row goes only by a delete of its id, a blob only by a
\* delete that read its key).
OtherIdsUntouched ==
    [][/\ \A r \in rows :
            \/ r \in rows'
            \/ \E p \in Procs :
                  /\ proc[p].op = "delete" /\ proc[p].pc = "dbdelete"
                  /\ proc[p].id = r.id /\ r.id \notin Ids(rows')
       /\ \A k \in DOMAIN bucket :
            \/ k \in DOMAIN bucket' /\ bucket'[k] = bucket[k]
            \/ \E p \in Procs :
                  /\ proc[p].op = "delete" /\ proc[p].pc = "remove"
                  /\ proc[p].object_key = k /\ k \notin DOMAIN bucket']_vars

\* C18: a download that read its row while the row's blob was there, beside a
\* delete of the same id that read the row too, with no store failure of the
\* download: it answers 200 with the bytes of the blob of the row's key, or
\* 500 because get_object found no such key (S3Error); never 404, and the key
\* it read is the key of no row of another id.
C18_DownloadRacingDelete ==
    \A p, q \in Procs :
        (/\ proc[p].op = "download" /\ Done(p)
         /\ proc[p].obs = "row_blob" /\ ~proc[p].failed
         /\ proc[q].op = "delete" /\ proc[q].id = proc[p].id
         /\ proc[q].obs # "norow")
            => /\ proc[p].status # 404
               /\ \/ proc[p].status = 200
                  \/ proc[p].status = 500 /\ proc[p].err = "S3Error"
               /\ proc[p].status = 200 =>
                     /\ proc[p].object_key \in DOMAIN bucket =>
                            proc[p].result.body = bucket[proc[p].object_key].data
                     /\ \A r \in rows :
                            r.minio_object_key = proc[p].object_key
                                => r.id = proc[p].id

DownloadRacingDeleteUnderApp == impl = "app" => C18_DownloadRacingDelete

\* A download read its row, a delete of the id removed the blob, and the
\* download's get_object found no such key.
DownloadLostRaceToDelete ==
    \E p, q \in Procs :
        /\ proc[p].op = "download" /\ Done(p)
        /\ proc[p].obs = "row_blob" /\ proc[p].err = "S3Error"
        /\ proc[q].op = "delete" /\ proc[q].id = proc[p].id
        /\ proc[q].pc \in {"dbdelete", "done"}

\* Handler p takes this step: its position or response changes, or else some
\* other field of it.
Control(h) == <<h.op, h.pc, h.status, h.err, h.s3calls>>

Moves(p) == Control(proc'[p]) # Control(proc[p]) \/ proc'[p] # proc[p]

\* A listing holds a record whose blob is not in the bucket.
C19_Witness ==
    \E p \in Procs :
        /\ proc[p].op = "list" /\ Done(p)
        /\ proc[p].status = 200
        /\ \E i \in DOMAIN proc[p].result :
              /\ proc[p].result[i] \in rows
              /\ proc[p].result[i].minio_object_key \notin DOMAIN bucket

\* C19: a listing changes neither the table nor the bucket and makes no
\* object-store call; unless its SELECT fails it answers 200 with every row
\* of the table once (rows without blob too, the empty sequence for the empty
\* table).  Every step of a download leaves the table and the bucket as they
\* were.
C19_ListReadOnly ==
    [][\A p \in Procs :
          /\ (Moves(p) /\ proc'[p].op = "list")
                => /\ rows' = rows /\ seq' = seq /\ bucket' = bucket
                   /\ proc'[p].s3calls = 0
                   /\ \/ proc'[p].failed
                      \/ /\ proc'[p].status = 200
                         /\ Len(proc'[p].result) = Cardinality(rows)
                         /\ Records(proc'[p].result) = rows
          /\ (Moves(p) /\ proc'[p].op = "download")
                => (rows' = rows /\ seq' = seq /\ bucket' = bucket)]_vars

\* C20: a request that has answered has closed every database connection it
\* opened, whatever path it took.
C20_ConnectionsClosed ==
    \A p \in Procs : Done(p) => proc[p].conns = 0

\* The connections are closed on the paths on which no call raises.
ConnectionsClosedUnlessRaised ==
    \A p \in Procs :
        (Done(p) /\ proc[p].err \notin {"OperationalError", "IntegrityError",
                                        "MaxRetryError"})
            => proc[p].conns = 0

\* app.py's delete has answered 500 for a remove_object that raised, its
\* connection still open.
DeleteLeavesConnectionOpen ==
    \E p \in Procs :
        /\ proc[p].op = "delete" /\ Done(p)
        /\ proc[p].err = "MaxRetryError"
        /\ proc[p].conns = 1

\* The request handler p has just taken in, as it arrived.
Arrived(p) == [Idle EXCEPT !.op = proc'[p].op, !.id = proc'[p].id]

\* Handler p's position and status after this step are those of h.
SameOutcome(p, h) == proc'[p].pc = h.pc /\ proc'[p].status = h.status

\* C21: main.py answers every request as app.py does and changes the stores
\* as app.py does, but for the text of the object keys: every step main.py's
\* handlers take, with the same store calls failing, is the step app.py's
\* handlers take from the same state (same 200/404/500 outcome, same row
\* stored, same body).
C21_MainActsAsApp ==
    [][impl = "main" =>
        \A p \in Procs :
          /\ (/\ proc[p].op = "upload" /\ proc[p].pc = "insert"
              /\ proc'[p].pc = "done" /\ ~proc'[p].failed)
                => \A row \in rows' \ rows :
                      /\ SameOutcome(p, AfterInsertIn("app", proc[p], rows', row))
                      /\ row.content_type = RowContentTypeIn("app", proc[p].file)
          /\ (/\ Moves(p) /\ nreq' = nreq + 1
              /\ proc'[p].op = "download" /\ ~proc'[p].failed)
                => SameOutcome(p, LookupIn("app", Arrived(p), "fetch"))
          /\ (/\ Moves(p) /\ nreq' = nreq + 1
              /\ proc'[p].op = "delete" /\ ~proc'[p].failed)
                => SameOutcome(p, LookupIn("app", Arrived(p), "remove"))
          /\ (/\ proc[p].op = "download" /\ proc[p].pc = "fetch"
              /\ proc'[p].status = 200)
                => proc'[p].result.body =
                     StreamedIn("app", proc[p],
                                bucket[proc[p].object_key].data).result.body
          /\ (/\ proc[p].op = "delete" /\ proc[p].pc = "dbdelete"
              /\ proc'[p].pc = "done" /\ ~proc'[p].failed)
                => SameOutcome(p, AfterDeleteIn("app", proc[p],
                                               proc[p].id \in Ids(rows)))
    ]_vars

\* As C21_MainActsAsApp, for uploads whose file part names a content type
\* and leaving the status of the answers aside: main.py's INSERT stores the
\* row app.py's stores.
MainStoresAsAppGivenContentType ==
    [][impl = "main" =>
        \A p \in Procs :
          (/\ proc[p].op = "upload" /\ proc[p].pc = "insert"
           /\ proc'[p].pc = "done" /\ ~proc'[p].failed
           /\ proc[p].file.content_type # None)
              => \A row \in rows' \ rows :
                    row.content_type = RowContentTypeIn("app", proc[p].file)]_vars

\* The blobs of the bucket whose key no row holds.
Orphans(rs, b) == DOMAIN b \ Keys(rs)

\* The bucket holds the blob of an upload whose INSERT raised, and no other
\* orphan, after a delete that found its row and blob has answered 200.
C22_Witness ==
    \E p, q \in Procs :
        /\ proc[p].op = "upload" /\ Done(p)
        /\ proc[p].status = 500
        /\ Orphans(rows, bucket) = {proc[p].object_key}
        /\ proc[q].op = "delete" /\ Done(q)
        /\ proc[q].status = 200 /\ proc[q].obs = "row_blob"

\* C22: a blob comes to be without a row only in the put_object step of an
\* upload (no step of a delete, download or listing leaves a blob whose row
\* it removes or whose row is missing); an upload answers 200 only with the
\* row of its key stored, and the blob of an upload that has answered 200 is
\* never an orphan.
C22_OrphansOnlyFromFailedUploads ==
    /\ [](\A p \in Procs :
            (proc[p].op = "upload" /\ Done(p) /\ proc[p].status = 200)
                => proc[p].object_key \notin Orphans(rows, bucket))
    /\ [][/\ \A k \in Orphans(rows', bucket') \ Orphans(rows, bucket) :
               \E p \in Procs :
                   /\ proc[p].op = "upload" /\ proc[p].pc = "put"
                   /\ proc'[p].pc = "insert"
                   /\ proc[p].object_key = k
          /\ \A p \in Procs :
               UploadSucceeds(p) => proc[p].object_key \in Keys(rows')]_vars

====
